---- MODULE Spec2Model ----
(***************************************************************************)
(* A model of avilist: the checklist object (AviListShort/AviListExtended) *)
(* with its table producer, the normalizer _process_raw_df, the query      *)
(* engine (_build_query_set, find, enrich_species_list) and the record     *)
(* schemas (AviListLeanRecord, AviListShortRecord, AviListExtendedRecord)  *)
(* with parse_authority.                                                   *)
(*                                                                         *)
(* Text is a sequence of one-character strings, so that str.lower, split,  *)
(* strip, startswith and contains are computed, not assumed.  A table cell *)
(* or Python value is a tagged record: PyStr, PyInt, PyBool, NA (the      *)
(* table's missing-value marker) or None.                                  *)
(***************************************************************************)
EXTENDS Integers, Sequences, FiniteSets, TLC

VARIABLES
  variant,     \* "short" | "extended": the class of the checklist object
  version,     \* self._version
  df_promise,  \* self._df_promise: which producer is bound
  df,          \* self._df: None or a table
  source,      \* environment: which content the file / remote resource holds
  gen,         \* the generator object the consumer holds (returned by find)
  out,         \* the records the consumer has received from gen so far
  arg,         \* the argument of the last call of the function under study
  res          \* what that call returned or raised

vars == <<variant, version, df_promise, df, source, gen, out, arg, res>>

(***************************************************************************)
(* Bounds of the model.                                                    *)
(***************************************************************************)
\* longest scientific_name drawn in SpecRecord
MaxNameLen == 5
\* longest authority text drawn in SpecRecord
MaxAuthLen == 5
\* most rows of a raw table drawn in SpecNormalize
MaxRows == 2
\* largest limit passed to find
MaxLimit == 2
\* most (scientific_name, threshold) pairs passed to enrich_species_list
MaxPairs == 3

(***************************************************************************)
(* Values.                                                                 *)
(***************************************************************************)
None == [kind |-> "none"]
NA == [kind |-> "na"]
PyStr(s) == [kind |-> "str", val |-> s]
PyInt(i) == [kind |-> "int", val |-> i]
PyBool(b) == [kind |-> "bool", val |-> b]
Raise(e) == [kind |-> "raise", exc |-> e]

Range(s) == {s[i] : i \in DOMAIN s}
StringsUpTo(A, n) == UNION {[1..k -> A] : k \in 0..n}

\* Python truthiness of a value (`not s`, `if limit:`, `if genus := ...`).
Truthy(v) ==
  CASE v.kind = "none" -> FALSE
    [] v.kind = "str" -> v.val # <<>>
    [] v.kind = "int" -> v.val # 0
    [] v.kind = "bool" -> v.val
    [] OTHER -> TRUE

(***************************************************************************)
(* Python str operations.                                                  *)
(***************************************************************************)
UPPER == <<"A", "B", "C", "D", "E", "F", "G", "H", "I", "J", "K", "L", "M", "N", "O", "P", "Q", "R", "S", "T", "U", "V", "W", "X", "Y", "Z">>
LOWER == <<"a", "b", "c", "d", "e", "f", "g", "h", "i", "j", "k", "l", "m", "n", "o", "p", "q", "r", "s", "t", "u", "v", "w", "x", "y", "z">>
DIGITS == <<"0", "1", "2", "3", "4", "5", "6", "7", "8", "9">>
WS == {" ", "\t", "\n"}

FirstIndex(s, c) == CHOOSE i \in 1..Len(s) : s[i] = c /\ \A j \in 1..(i - 1) : s[j] # c
LastIndex(s, c) == CHOOSE i \in 1..Len(s) : s[i] = c /\ \A j \in (i + 1)..Len(s) : s[j] # c

UpperSet == Range(UPPER)
DigitSet == Range(DIGITS)
AlnumSet == Range(UPPER) \cup Range(LOWER) \cup Range(DIGITS)
LowerChar(c) == IF c \in UpperSet THEN LOWER[FirstIndex(UPPER, c)] ELSE c
lower(s) == [i \in 1..Len(s) |-> LowerChar(s[i])]

IsAlnum(c) == c \in AlnumSet

startswith(s, p) == Len(p) <= Len(s) /\ SubSeq(s, 1, Len(p)) = p
contains(s, p) == \E i \in 0..(Len(s) - Len(p)) : SubSeq(s, i + 1, i + Len(p)) = p

RECURSIVE lstrip(_, _)
lstrip(s, cs) == IF s # <<>> /\ s[1] \in cs THEN lstrip(Tail(s), cs) ELSE s
RECURSIVE rstrip(_, _)
rstrip(s, cs) ==
  IF s # <<>> /\ s[Len(s)] \in cs THEN rstrip(SubSeq(s, 1, Len(s) - 1), cs) ELSE s
strip(s, cs) == rstrip(lstrip(s, cs), cs)

\* s.split(sep): every occurrence of sep cuts, empty pieces are kept.
RECURSIVE split(_, _)
split(s, sep) ==
  IF sep \notin Range(s) THEN <<s>>
  ELSE LET i == FirstIndex(s, sep)
       IN <<SubSeq(s, 1, i - 1)>> \o split(SubSeq(s, i + 1, Len(s)), sep)

\* s.split(sep, 1) and s.rsplit(sep, 1)
split1(s, sep) ==
  IF sep \notin Range(s) THEN <<s>>
  ELSE LET i == FirstIndex(s, sep) IN <<SubSeq(s, 1, i - 1), SubSeq(s, i + 1, Len(s))>>
\* rsplit1 as it would be with split for rsplit: the cut is at the first comma
rsplit1_at_first_comma(s, sep) == split1(s, sep)
rsplit1(s, sep) ==
  IF sep \notin Range(s) THEN <<s>>
  ELSE LET i == LastIndex(s, sep) IN <<SubSeq(s, 1, i - 1), SubSeq(s, i + 1, Len(s))>>

\* s.split(): runs of whitespace cut, no empty piece.
RECURSIVE split_ws(_)
split_ws(s) ==
  IF s = <<>> THEN <<>>
  ELSE IF s[1] \in WS THEN split_ws(Tail(s))
  ELSE LET stops == {i \in DOMAIN s : s[i] \in WS}
           n == IF stops = {} THEN Len(s)
                ELSE (CHOOSE i \in stops : \A j \in stops : i <= j) - 1
       IN <<SubSeq(s, 1, n)>> \o split_ws(SubSeq(s, n + 1, Len(s)))

RECURSIVE join(_, _)
join(sep, parts) ==
  IF parts = <<>> THEN <<>>
  ELSE IF Len(parts) = 1 THEN parts[1]
  ELSE parts[1] \o sep \o join(sep, Tail(parts))

\* int(s) accepts an optional sign and digits, single underscores between digits.
IsIntLiteral(s) ==
  LET t == strip(s, WS)
      body == IF t # <<>> /\ t[1] \in {"+", "-"} THEN Tail(t) ELSE t
  IN /\ body # <<>>
     /\ \A i \in DOMAIN body : body[i] \in DigitSet \cup {"_"}
     /\ body[1] # "_" /\ body[Len(body)] # "_"
     /\ \A i \in 1..(Len(body) - 1) : ~(body[i] = "_" /\ body[i + 1] = "_")
RECURSIVE DigitsValue(_)
DigitsValue(ds) ==
  IF ds = <<>> THEN 0
  ELSE 10 * DigitsValue(SubSeq(ds, 1, Len(ds) - 1)) + (FirstIndex(DIGITS, ds[Len(ds)]) - 1)
IntValue(s) ==
  LET t == strip(s, WS)
      neg == t # <<>> /\ t[1] = "-"
      body == IF t # <<>> /\ t[1] \in {"+", "-"} THEN Tail(t) ELSE t
      v == DigitsValue(SelectSeq(body, LAMBDA c : c # "_"))
  IN IF neg THEN 0 - v ELSE v

(***************************************************************************)
(* aliases.py: parse_authority.                                            *)
(***************************************************************************)
parse_authority(s) ==
  IF ~Truthy(s) \/ s.kind # "str" THEN None
  ELSE
    LET clean_s == strip(s.val, {"(", ")"})
        cut == rsplit1(clean_s, ",")
        parts == [i \in 1..Len(cut) |-> strip(cut[i], WS)]
    IN IF Len(parts) < 2 THEN None
       ELSE
         LET name_part == parts[1]
             year_str == parts[2]
             cut2 == split1(name_part, ",")
             name_split == [i \in 1..Len(cut2) |-> strip(cut2[i], WS)]
             last_name == IF "," \in Range(name_part) THEN name_split[1] ELSE name_part
             initials == IF "," \in Range(name_part)
                         THEN (IF Len(name_split) > 1 THEN name_split[2] ELSE <<>>)
                         ELSE <<>>
         IN IF IsIntLiteral(year_str)
            THEN [kind |-> "tuple", last_name |-> last_name, initials |-> initials,
                  year |-> IntValue(year_str)]
            ELSE Raise("ValueError")

(***************************************************************************)
(* Canonical column names (the keys of COLUMN_DTYPES the model carries)    *)
(* and the fields of the record schemas.                                   *)
(***************************************************************************)
sequence == <<"s", "e", "q", "u", "e", "n", "c", "e">>
taxon_rank == <<"t", "a", "x", "o", "n", "_", "r", "a", "n", "k">>
order == <<"o", "r", "d", "e", "r">>
family == <<"f", "a", "m", "i", "l", "y">>
family_english_name == <<"f", "a", "m", "i", "l", "y", "_", "e", "n", "g", "l", "i", "s", "h", "_", "n", "a", "m", "e">>
scientific_name == <<"s", "c", "i", "e", "n", "t", "i", "f", "i", "c", "_", "n", "a", "m", "e">>
authority == <<"a", "u", "t", "h", "o", "r", "i", "t", "y">>
english_name_avilist == <<"e", "n", "g", "l", "i", "s", "h", "_", "n", "a", "m", "e", "_", "a", "v", "i", "l", "i", "s", "t">>
english_name_clements_v2024 == <<"e", "n", "g", "l", "i", "s", "h", "_", "n", "a", "m", "e", "_", "c", "l", "e", "m", "e", "n", "t", "s", "_", "v", "2", "0", "2", "4">>
english_name_birdlife_v9 == <<"e", "n", "g", "l", "i", "s", "h", "_", "n", "a", "m", "e", "_", "b", "i", "r", "d", "l", "i", "f", "e", "_", "v", "9">>
species_range == <<"s", "p", "e", "c", "i", "e", "s", "_", "r", "a", "n", "g", "e">>
extinct_or_possibly_extinct == <<"e", "x", "t", "i", "n", "c", "t", "_", "o", "r", "_", "p", "o", "s", "s", "i", "b", "l", "y", "_", "e", "x", "t", "i", "n", "c", "t">>
avibase_id == <<"a", "v", "i", "b", "a", "s", "e", "_", "i", "d">>
binomial_helper == <<"b", "i", "n", "o", "m", "i", "a", "l", "_", "h", "e", "l", "p", "e", "r">>

RequiredStr == {scientific_name, taxon_rank}
LeanFields == {scientific_name, sequence, taxon_rank, family, order, english_name_avilist}
ShortFields == LeanFields \cup
  {authority, avibase_id, extinct_or_possibly_extinct, family_english_name, species_range}
ExtendedFields == ShortFields \cup {english_name_birdlife_v9, english_name_clements_v2024}
Fields(schema) ==
  CASE schema = "lean" -> LeanFields
    [] schema = "short" -> ShortFields
    [] schema = "extended" -> ExtendedFields

\* transform_and_clean: every missing-value marker becomes None.
transform_and_clean(data) ==
  [k \in DOMAIN data |-> IF data[k].kind \in {"na", "none"} THEN None ELSE data[k]]

\* One field of a schema validated from the cleaned mapping: the value, or a
\* Raise when the field rejects it.
ValidateField(f, data) ==
  LET v == IF f \in DOMAIN data THEN data[f] ELSE None
  IN CASE f \in RequiredStr -> IF v.kind = "str" THEN v ELSE Raise("ValidationError")
       [] f = sequence ->
            IF v.kind = "int" THEN v
            ELSE IF v.kind = "str" /\ IsIntLiteral(v.val) THEN PyInt(IntValue(v.val))
            ELSE Raise("ValidationError")
       [] f = authority ->
            LET a == parse_authority(v)
            IN IF a.kind = "raise" THEN Raise("ValidationError") ELSE a
       [] f = extinct_or_possibly_extinct ->
            IF v.kind \in {"none", "bool", "str"} THEN v ELSE Raise("ValidationError")
       [] OTHER -> IF v.kind \in {"none", "str"} THEN v ELSE Raise("ValidationError")

\* <Schema>.model_validate(record): a record, or the validation error.
model_validate(schema, record) ==
  LET data == transform_and_clean(record)
      fields == [f \in Fields(schema) |-> ValidateField(f, data)]
  IN IF \E f \in Fields(schema) : fields[f].kind = "raise"
     THEN Raise("ValidationError")
     ELSE [kind |-> "record", schema |-> schema, fields |-> fields]

\* The derived properties of AviListLeanRecord, computed on read.
genus(r) == PyStr(split(r.fields[scientific_name].val, " ")[1])
epithet(r) ==
  LET parts == split(r.fields[scientific_name].val, " ")
  IN IF Len(parts) >= 2 THEN PyStr(parts[2]) ELSE Raise("IndexError")
subspecies(r) ==
  LET parts == split(r.fields[scientific_name].val, " ")
  IN IF Len(parts) = 0 THEN None ELSE PyStr(parts[Len(parts)])
binomial(r) == r.fields[scientific_name]
common_name(r) ==
  IF r.schema = "extended"
  THEN IF Truthy(r.fields[english_name_avilist]) THEN r.fields[english_name_avilist]
       ELSE IF Truthy(r.fields[english_name_clements_v2024])
            THEN r.fields[english_name_clements_v2024]
       ELSE r.fields[english_name_birdlife_v9]
  ELSE r.fields[english_name_avilist]

(***************************************************************************)
(* avilist.py: the normalizer.  A table is [columns, rows]: the column     *)
(* names in order and, per row, the cells in column order.                 *)
(***************************************************************************)
COLUMN_REMAPPING ==
  << <<<<"a", "v", "i", "b", "a", "s", "e", "i", "d">>, avibase_id>>, <<<<"r", "a", "n", "g", "e">>, species_range>> >>
COLUMN_DTYPES ==
  << <<sequence, "int64">>, <<taxon_rank, "category">>, <<order, "string">>,
     <<family, "string">>, <<family_english_name, "string">>,
     <<scientific_name, "string">>, <<authority, "string">>,
     <<<<"b", "i", "b", "l", "i", "o", "g", "r", "a", "p", "h", "i", "c", "_", "d", "e", "t", "a", "i", "l", "s">>, "string">>, <<english_name_avilist, "string">>,
     <<english_name_clements_v2024, "string">>, <<english_name_birdlife_v9, "string">>,
     <<<<"p", "r", "o", "p", "o", "s", "a", "l", "_", "n", "u", "m", "b", "e", "r">>, "string">>, <<<<"d", "e", "c", "i", "s", "i", "o", "n", "_", "s", "u", "m", "m", "a", "r", "y">>, "string">>,
     <<species_range, "string">>, <<extinct_or_possibly_extinct, "boolean">>,
     <<<<"i", "u", "c", "n", "_", "r", "e", "d", "_", "l", "i", "s", "t", "_", "c", "a", "t", "e", "g", "o", "r", "y">>, "category">>, <<<<"b", "i", "r", "d", "l", "i", "f", "e", "_", "d", "a", "t", "a", "z", "o", "n", "e", "_", "u", "r", "l">>, "string">>,
     <<<<"s", "p", "e", "c", "i", "e", "s", "_", "c", "o", "d", "e", "_", "c", "o", "r", "n", "e", "l", "l", "_", "l", "a", "b">>, "string">>, <<<<"b", "i", "r", "d", "s", "_", "o", "f", "_", "t", "h", "e", "_", "w", "o", "r", "l", "d", "_", "u", "r", "l">>, "string">>,
     <<avibase_id, "string">>, <<<<"g", "e", "n", "d", "e", "r", "_", "o", "f", "_", "g", "e", "n", "u", "s">>, "string">>,
     <<<<"t", "y", "p", "e", "_", "s", "p", "e", "c", "i", "e", "s", "_", "o", "f", "_", "g", "e", "n", "u", "s">>, "string">>, <<<<"t", "y", "p", "e", "_", "l", "o", "c", "a", "l", "i", "t", "y">>, "string">>,
     <<<<"t", "i", "t", "l", "e", "_", "o", "f", "_", "o", "r", "i", "g", "i", "n", "a", "l", "_", "d", "e", "s", "c", "r", "i", "p", "t", "i", "o", "n">>, "string">>,
     <<<<"o", "r", "i", "g", "i", "n", "a", "l", "_", "d", "e", "s", "c", "r", "i", "p", "t", "i", "o", "n", "_", "u", "r", "l">>, "string">>, <<<<"p", "r", "o", "t", "o", "n", "y", "m">>, "string">>,
     <<binomial_helper, "string">> >>

Lookup(pairs, key, default) ==
  IF \E i \in DOMAIN pairs : pairs[i][1] = key
  THEN pairs[CHOOSE i \in DOMAIN pairs : pairs[i][1] = key][2]
  ELSE default

\* re.sub(r'[\W_]+', '_', s): every maximal run of non-alphanumerics becomes one "_".
RECURSIVE SubNonWord(_)
SubNonWord(s) ==
  IF s = <<>> THEN <<>>
  ELSE IF IsAlnum(s[1]) THEN <<s[1]>> \o SubNonWord(Tail(s))
  ELSE IF Len(s) > 1 /\ ~IsAlnum(s[2]) THEN SubNonWord(Tail(s))
  ELSE <<"_">> \o SubNonWord(Tail(s))

CanonicalName(col) == strip(SubNonWord(lower(strip(col, WS))), {"_"})
RenamedColumn(col) == Lookup(COLUMN_REMAPPING, CanonicalName(col), CanonicalName(col))

RECURSIVE IntToStr(_)
IntToStr(n) ==
  IF n < 0 THEN <<"-">> \o IntToStr(0 - n)
  ELSE IF n < 10 THEN <<DIGITS[n + 1]>>
  ELSE IntToStr(n \div 10) \o <<DIGITS[(n % 10) + 1]>>

\* One cell under Series.astype(dtype), or under the boolean column's
\* map({'Yes': True, 'No': False}).fillna(False).
Coerce(dtype, v) ==
  CASE dtype = "boolean" ->
         IF v = PyStr(<<"Y", "e", "s">>) THEN PyBool(TRUE)
         ELSE IF v = PyStr(<<"N", "o">>) THEN PyBool(FALSE)
         ELSE PyBool(FALSE)
    [] dtype = "int64" ->
         IF v.kind = "int" THEN v
         ELSE IF v.kind = "bool" THEN PyInt(IF v.val THEN 1 ELSE 0)
         ELSE IF v.kind = "str" /\ IsIntLiteral(v.val) THEN PyInt(IntValue(v.val))
         ELSE Raise("ValueError")
    [] dtype = "string" ->
         IF v.kind = "int" THEN PyStr(IntToStr(v.val))
         ELSE IF v.kind = "bool" THEN PyStr(IF v.val THEN <<"T", "r", "u", "e">> ELSE <<"F", "a", "l", "s", "e">>)
         ELSE v
    [] OTHER -> v

HasColumn(t, col) == col \in Range(t.columns)
ColumnIndex(t, col) == FirstIndex(t.columns, col)
Cell(t, r, col) == t.rows[r][ColumnIndex(t, col)]

\* BinomialHelper as it would be with .str[:1] for .str[:2]
BinomialHelper_first_token(v) ==
  IF v.kind = "str"
  THEN LET parts == split_ws(v.val)
       IN PyStr(lower(join(<<" ">>, SubSeq(parts, 1, IF Len(parts) < 1 THEN 0 ELSE 1))))
  ELSE NA

\* .str.split().str[:2].str.join(' ').str.lower() on one cell of a string column
BinomialHelper(v) ==
  IF v.kind = "str"
  THEN LET parts == split_ws(v.val)
       IN PyStr(lower(join(<<" ">>, SubSeq(parts, 1, IF Len(parts) < 2 THEN Len(parts) ELSE 2))))
  ELSE NA

\* df[col] = values: replaces the column when it exists, appends it otherwise.
SetColumn(t, col, values) ==
  IF HasColumn(t, col)
  THEN [t EXCEPT !.rows = [r \in 1..Len(t.rows) |->
                             [t.rows[r] EXCEPT ![ColumnIndex(t, col)] = values[r]]]]
  ELSE [columns |-> Append(t.columns, col),
        rows |-> [r \in 1..Len(t.rows) |-> Append(t.rows[r], values[r])]]

process_raw_df(raw) ==
  LET renamed == [raw EXCEPT !.columns = [i \in 1..Len(raw.columns) |->
                                            RenamedColumn(raw.columns[i])]]
      typed == [renamed EXCEPT !.rows =
                  [r \in 1..Len(renamed.rows) |->
                     [i \in 1..Len(renamed.columns) |->
                        Coerce(Lookup(COLUMN_DTYPES, renamed.columns[i], "object"),
                               renamed.rows[r][i])]]]
  IN IF \E r \in 1..Len(typed.rows) : \E i \in 1..Len(typed.columns) :
          typed.rows[r][i].kind = "raise"
     THEN Raise("ValueError")
     ELSE IF ~HasColumn(typed, scientific_name) THEN Raise("KeyError")
     ELSE [kind |-> "table"] @@
          SetColumn(typed, binomial_helper,
                    [r \in 1..Len(typed.rows) |->
                       BinomialHelper(Cell(typed, r, scientific_name))])

(***************************************************************************)
(* SpecRecord: one raw row is validated into each schema.  The row's       *)
(* scientific_name ranges over every text of at most MaxNameLen characters *)
(* of NameAlphabet, its authority over every text of at most MaxAuthLen    *)
(* characters of AuthAlphabet, the citations of the documentation, and     *)
(* non-text values.                                                        *)
(***************************************************************************)
NameAlphabet == {"a", "B", " "}
AuthAlphabet == {"L", "1", ",", "(", ")"}
DocumentedAuthorities ==
  { <<"(", "L", "i", "n", "n", "a", "e", "u", "s", ",", " ", "1", "7", "5", "8", ")">>, <<"N", "a", "u", "m", "a", "n", "n", ",", " ", "J", "A", ";", " ", "N", "a", "u", "m", "a", "n", "n", ",", " ", "J", "F", ",", " ", "1", "9", "0", "0">>, <<"L", "i", "n", "n", "a", "e", "u", "s", ",", " ", "1", "7", "5", "8">>,
    <<"L", "i", "n", "n", "a", "e", "u", "s">>, <<"L", "i", "n", "n", "a", "e", "u", "s", ",", " ", "s", ".", "d", ".">>, <<" ">>, <<"L", "i", "n", "n", "a", "e", "u", "s", ",", " ">> }
NameInputs == {PyStr(s) : s \in StringsUpTo(NameAlphabet, MaxNameLen)} \cup {NA}
AuthInputs ==
  {PyStr(s) : s \in StringsUpTo(AuthAlphabet, MaxAuthLen) \cup DocumentedAuthorities}
    \cup {NA, None, PyInt(0), PyInt(1758), PyBool(TRUE)}

SampleRow ==
  [c \in {sequence, taxon_rank, scientific_name, authority, english_name_avilist} |->
     CASE c = sequence -> PyInt(1)
       [] c = taxon_rank -> PyStr(<<"s", "p", "e", "c", "i", "e", "s">>)
       [] c = scientific_name -> PyStr(<<"C", "o", "r", "v", "u", "s", " ", "c", "o", "r", "o", "n", "e">>)
       [] c = authority -> PyStr(<<"L", "i", "n", "n", "a", "e", "u", "s", ",", " ", "1", "7", "5", "8">>)
       [] c = english_name_avilist -> PyStr(<<"C", "a", "r", "r", "i", "o", "n", " ", "C", "r", "o", "w">>)]
RecordInputs ==
  {[SampleRow EXCEPT ![scientific_name] = n] : n \in NameInputs}
    \cup {[SampleRow EXCEPT ![authority] = a] : a \in AuthInputs}

Idle ==
  /\ variant = "extended" /\ version = None /\ df_promise = None /\ df = None
  /\ source = 0 /\ gen = None /\ out = <<>>

InitRecord == Idle /\ arg \in RecordInputs /\ res = None

\* <Schema>.model_validate(arg)
Validate(schema) ==
  /\ res' = [schema |-> schema, ret |-> model_validate(schema, arg)]
  /\ UNCHANGED <<variant, version, df_promise, df, source, gen, out, arg>>

NextRecord == \E schema \in {"lean", "short", "extended"} : Validate(schema)

SpecRecord == InitRecord /\ [][NextRecord]_vars

(***************************************************************************)
(* SpecNormalize: a raw table read from a spreadsheet is normalized, and   *)
(* the result may be normalized again (as when a persisted table is fed    *)
(* back to the normalizer).  res holds the last result, or None.           *)
(***************************************************************************)
AviListHeader ==
  <<<<"S", "e", "q", "u", "e", "n", "c", "e">>, <<"T", "a", "x", "o", "n", "_", "r", "a", "n", "k">>, <<"S", "c", "i", "e", "n", "t", "i", "f", "i", "c", "_", "n", "a", "m", "e">>,
    <<"E", "x", "t", "i", "n", "c", "t", "_", "o", "r", "_", "p", "o", "s", "s", "i", "b", "l", "y", "_", "e", "x", "t", "i", "n", "c", "t">>, <<"A", "v", "i", "b", "a", "s", "e", "I", "D">>, <<"R", "a", "n", "g", "e">>>>
RawHeaders ==
  { AviListHeader,
    <<<<" ", "s", "e", "q", "u", "e", "n", "c", "e">>, <<"T", "a", "x", "o", "n", " ", "r", "a", "n", "k">>, <<"S", "c", "i", "e", "n", "t", "i", "f", "i", "c", " ", " ", "N", "a", "m", "e", " ">>,
      <<"E", "x", "t", "i", "n", "c", "t", " ", "o", "r", " ", "p", "o", "s", "s", "i", "b", "l", "y", " ", "e", "x", "t", "i", "n", "c", "t", "?">>, <<"A", "v", "i", "b", "a", "s", "e", "_", "I", "D">>, <<"s", "p", "e", "c", "i", "e", "s", "-", "r", "a", "n", "g", "e">>>>,
    <<sequence, taxon_rank, scientific_name,
      extinct_or_possibly_extinct, avibase_id, species_range>>,
    <<<<"S", "e", "q", "u", "e", "n", "c", "e">>, <<"T", "a", "x", "o", "n", "_", "r", "a", "n", "k">>, <<"N", "a", "m", "e">>,
      <<"E", "x", "t", "i", "n", "c", "t", "_", "o", "r", "_", "p", "o", "s", "s", "i", "b", "l", "y", "_", "e", "x", "t", "i", "n", "c", "t">>, <<"A", "v", "i", "b", "a", "s", "e", "I", "D">>, <<"R", "a", "n", "g", "e">>>> }
ExtinctInputs ==
  {PyStr(<<"Y", "e", "s">>), PyStr(<<"N", "o">>), PyStr(<<"y", "e", "s">>), NA, PyBool(TRUE), PyBool(FALSE)}
RawRow(n, e) == <<PyInt(1), PyStr(<<"s", "p", "e", "c", "i", "e", "s">>), n, e, PyStr(<<"a", "v", "i", "b", "a", "s", "e", "-", "6", "9", "5", "4", "4", "B", "5", "9">>), NA>>
RawRowPool ==
  { RawRow(PyStr(<<"C", "o", "r", "v", "u", "s", " ", "c", "o", "r", "o", "n", "e">>), PyStr(<<"N", "o">>)),
    RawRow(PyStr(<<"C", "o", "r", "v", "i", "d", "a", "e">>), NA),
    RawRow(PyStr(<<"C", "o", "r", "v", "u", "s", " ", " ", "c", "o", "r", "o", "n", "e", "\t", "O", "R", "I", "E", "N", "T", "A", "L", "I", "S">>), PyStr(<<"Y", "e", "s">>)),
    RawRow(NA, PyStr(<<"Y", "e", "s">>)),
    <<PyStr(<<"1", "2">>), PyStr(<<"s", "p", "e", "c", "i", "e", "s">>), PyStr(<<"R", "a", "p", "h", "u", "s", " ", "c", "u", "c", "u", "l", "l", "a", "t", "u", "s">>), PyStr(<<"Y", "e", "s">>),
      PyInt(70), PyStr(<<"M", "a", "u", "r", "i", "t", "i", "u", "s">>)>>,
    <<NA, PyStr(<<"s", "p", "e", "c", "i", "e", "s">>), PyStr(<<"C", "o", "r", "v", "u", "s", " ", "c", "o", "r", "a", "x">>), PyStr(<<"N", "o">>), NA, NA>> }
RawTableInputs ==
  {[columns |-> AviListHeader, rows |-> <<RawRow(n, e)>>] :
     n \in NameInputs, e \in ExtinctInputs}
  \cup {[columns |-> h, rows |-> rs] :
          h \in RawHeaders, rs \in UNION {[1..k -> RawRowPool] : k \in 1..MaxRows}}

InitNormalize == Idle /\ arg \in RawTableInputs /\ res = None

\* df = cls._process_raw_df(df)
Normalize ==
  /\ res = None
  /\ res' = process_raw_df(arg)
  /\ UNCHANGED <<variant, version, df_promise, df, source, gen, out, arg>>

\* the same, applied to a table that is already normalized
Renormalize ==
  /\ res # None /\ res.kind = "table"
  /\ res' = process_raw_df([columns |-> res.columns, rows |-> res.rows])
  /\ UNCHANGED <<variant, version, df_promise, df, source, gen, out, arg>>

NextNormalize == Normalize \/ Renormalize

SpecNormalize == InitNormalize /\ [][NextNormalize]_vars

(***************************************************************************)
(* The environment of a checklist object: what the spreadsheet behind the  *)
(* bound producer holds.  The content can change between two loads (a new  *)
(* download, a replaced file); source says which content is there now.     *)
(***************************************************************************)
ChecklistHeader ==
  <<<<"S", "e", "q", "u", "e", "n", "c", "e">>, <<"T", "a", "x", "o", "n", "_", "r", "a", "n", "k">>, <<"O", "r", "d", "e", "r">>, <<"F", "a", "m", "i", "l", "y">>, <<"F", "a", "m", "i", "l", "y", "_", "E", "n", "g", "l", "i", "s", "h", "_", "n", "a", "m", "e">>,
    <<"S", "c", "i", "e", "n", "t", "i", "f", "i", "c", "_", "n", "a", "m", "e">>, <<"A", "u", "t", "h", "o", "r", "i", "t", "y">>, <<"E", "n", "g", "l", "i", "s", "h", "_", "n", "a", "m", "e", "_", "A", "v", "i", "L", "i", "s", "t">>,
    <<"E", "n", "g", "l", "i", "s", "h", "_", "n", "a", "m", "e", "_", "C", "l", "e", "m", "e", "n", "t", "s", "_", "v", "2", "0", "2", "4">>, <<"E", "n", "g", "l", "i", "s", "h", "_", "n", "a", "m", "e", "_", "B", "i", "r", "d", "L", "i", "f", "e", "_", "v", "9">>, <<"R", "a", "n", "g", "e">>,
    <<"E", "x", "t", "i", "n", "c", "t", "_", "o", "r", "_", "p", "o", "s", "s", "i", "b", "l", "y", "_", "e", "x", "t", "i", "n", "c", "t">>>>
Passeriformes == PyStr(<<"P", "a", "s", "s", "e", "r", "i", "f", "o", "r", "m", "e", "s">>)
Corvidae == PyStr(<<"C", "o", "r", "v", "i", "d", "a", "e">>)
Crows == PyStr(<<"C", "r", "o", "w", "s", " ", "a", "n", "d", " ", "J", "a", "y", "s">>)
Coraciiformes == PyStr(<<"C", "o", "r", "a", "c", "i", "i", "f", "o", "r", "m", "e", "s">>)
Meropidae == PyStr(<<"M", "e", "r", "o", "p", "i", "d", "a", "e">>)
BeeEaters == PyStr(<<"B", "e", "e", "-", "e", "a", "t", "e", "r", "s">>)
Spreadsheets ==
  << [columns |-> ChecklistHeader, rows |->
       << <<PyInt(1), PyStr(<<"f", "a", "m", "i", "l", "y">>), Passeriformes, Corvidae, Crows,
            PyStr(<<"C", "o", "r", "v", "i", "d", "a", "e">>), PyStr(<<"L", "e", "a", "c", "h", ",", " ", "1", "8", "2", "0">>), NA, NA, NA, NA, NA>>,
          <<PyInt(2), PyStr(<<"s", "p", "e", "c", "i", "e", "s">>), Passeriformes, Corvidae, Crows,
            PyStr(<<"C", "o", "r", "v", "u", "s", " ", "c", "o", "r", "o", "n", "e">>), PyStr(<<"L", "i", "n", "n", "a", "e", "u", "s", ",", " ", "1", "7", "5", "8">>), PyStr(<<"C", "a", "r", "r", "i", "o", "n", " ", "C", "r", "o", "w">>),
            PyStr(<<"C", "a", "r", "r", "i", "o", "n", " ", "C", "r", "o", "w">>), PyStr(<<"C", "a", "r", "r", "i", "o", "n", " ", "C", "r", "o", "w">>), PyStr(<<"E", "u", "r", "o", "p", "e", " ", "t", "o", " ", "J", "a", "p", "a", "n">>),
            PyStr(<<"N", "o">>)>>,
          <<PyInt(3), PyStr(<<"s", "u", "b", "s", "p", "e", "c", "i", "e", "s">>), Passeriformes, Corvidae, Crows,
            PyStr(<<"C", "o", "r", "v", "u", "s", " ", "c", "o", "r", "o", "n", "e", " ", "o", "r", "i", "e", "n", "t", "a", "l", "i", "s">>), PyStr(<<"E", "v", "e", "r", "s", "m", "a", "n", "n", ",", " ", "1", "8", "4", "1">>), NA, NA, NA,
            PyStr(<<"A", "s", "i", "a">>), NA>>,
          <<PyInt(4), PyStr(<<"s", "p", "e", "c", "i", "e", "s">>), Coraciiformes, Meropidae, BeeEaters,
            PyStr(<<"M", "e", "r", "o", "p", "s", " ", "o", "r", "i", "e", "n", "t", "a", "l", "i", "s">>), PyStr(<<"L", "a", "t", "h", "a", "m", ",", " ", "1", "8", "0", "1">>),
            PyStr(<<"A", "s", "i", "a", "n", " ", "G", "r", "e", "e", "n", " ", "B", "e", "e", "-", "e", "a", "t", "e", "r">>), PyStr(<<"G", "r", "e", "e", "n", " ", "B", "e", "e", "-", "e", "a", "t", "e", "r">>),
            PyStr(<<"A", "s", "i", "a", "n", " ", "G", "r", "e", "e", "n", " ", "B", "e", "e", "-", "e", "a", "t", "e", "r">>), PyStr(<<"S", "o", "u", "t", "h", " ", "A", "s", "i", "a">>), PyStr(<<"N", "o">>)>>,
          <<PyInt(5), PyStr(<<"s", "u", "b", "s", "p", "e", "c", "i", "e", "s">>), Coraciiformes, Meropidae, BeeEaters,
            PyStr(<<"M", "e", "r", "o", "p", "s", " ", "o", "r", "i", "e", "n", "t", "a", "l", "i", "s", " ", "b", "e", "l", "u", "d", "s", "c", "h", "i", "c", "u", "s">>), PyStr(<<"N", "e", "u", "m", "a", "n", "n", ",", " ", "1", "9", "1", "0">>), NA, NA, NA,
            PyStr(<<"I", "r", "a", "n", " ", "t", "o", " ", "I", "n", "d", "i", "a">>), NA>> >>],
     [columns |-> ChecklistHeader, rows |->
       << <<PyInt(1), PyStr(<<"s", "p", "e", "c", "i", "e", "s">>), Passeriformes, Corvidae, Crows,
            PyStr(<<"C", "o", "r", "v", "u", "s", " ", "c", "o", "r", "o", "n", "e">>), PyStr(<<"(", "L", "i", "n", "n", "a", "e", "u", "s", ",", " ", "1", "7", "5", "8", ")">>), PyStr(<<"C", "a", "r", "r", "i", "o", "n", " ", "C", "r", "o", "w">>),
            NA, NA, PyStr(<<"E", "u", "r", "o", "p", "e">>), PyStr(<<"N", "o">>)>>,
          <<PyInt(2), PyStr(<<"s", "p", "e", "c", "i", "e", "s">>), Passeriformes, Corvidae, Crows,
            PyStr(<<"C", "o", "r", "v", "u", "s", " ", "c", "o", "r", "o", "n", "e">>), NA, NA, PyStr(<<"C", "a", "r", "r", "i", "o", "n", " ", "C", "r", "o", "w">>), NA, NA, NA>>,
          <<PyInt(3), PyStr(<<"s", "p", "e", "c", "i", "e", "s">>), PyStr(<<"C", "o", "l", "u", "m", "b", "i", "f", "o", "r", "m", "e", "s">>), PyStr(<<"C", "o", "l", "u", "m", "b", "i", "d", "a", "e">>),
            PyStr(<<"P", "i", "g", "e", "o", "n", "s", " ", "a", "n", "d", " ", "D", "o", "v", "e", "s">>), PyStr(<<"R", "a", "p", "h", "u", "s", " ", "c", "u", "c", "u", "l", "l", "a", "t", "u", "s">>),
            PyStr(<<"(", "L", "i", "n", "n", "a", "e", "u", "s", ",", " ", "1", "7", "5", "8", ")">>), PyStr(<<"D", "o", "d", "o">>), PyStr(<<"D", "o", "d", "o">>), PyStr(<<"D", "o", "d", "o">>),
            PyStr(<<"M", "a", "u", "r", "i", "t", "i", "u", "s">>), PyStr(<<"Y", "e", "s">>)>>,
          <<PyInt(4), PyStr(<<"s", "p", "e", "c", "i", "e", "s">>), Coraciiformes, Meropidae, BeeEaters,
            PyStr(<<"M", "e", "r", "o", "p", "s", " ", "o", "r", "i", "e", "n", "t", "a", "l", "i", "s">>), PyStr(<<"L", "a", "t", "h", "a", "m", ",", " ", "s", ".", "d", ".">>),
            PyStr(<<"A", "s", "i", "a", "n", " ", "G", "r", "e", "e", "n", " ", "B", "e", "e", "-", "e", "a", "t", "e", "r">>), NA, NA, PyStr(<<"S", "o", "u", "t", "h", " ", "A", "s", "i", "a">>), PyStr(<<"N", "o">>)>> >>] >>
Sources == 1..Len(Spreadsheets)

\* The short checklist has no Clements and BirdLife name columns.
ExtendedOnly == {<<"E", "n", "g", "l", "i", "s", "h", "_", "n", "a", "m", "e", "_", "C", "l", "e", "m", "e", "n", "t", "s", "_", "v", "2", "0", "2", "4">>, <<"E", "n", "g", "l", "i", "s", "h", "_", "n", "a", "m", "e", "_", "B", "i", "r", "d", "L", "i", "f", "e", "_", "v", "9">>}
DropColumns(t, cols) ==
  LET keep == SelectSeq([i \in 1..Len(t.columns) |-> i],
                        LAMBDA i : t.columns[i] \notin cols)
  IN [columns |-> [k \in 1..Len(keep) |-> t.columns[keep[k]]],
      rows |-> [r \in 1..Len(t.rows) |-> [k \in 1..Len(keep) |-> t.rows[r][keep[k]]]]]

\* pd.read_excel on the spreadsheet the environment holds
read_excel(v, src) ==
  IF v = "short" THEN DropColumns(Spreadsheets[src], ExtendedOnly) ELSE Spreadsheets[src]

\* _load_xlsx and _fetch_from_avilist: read, then normalize.  The results for
\* the contents the environment can hold are tabulated once.
NormalizedSheets ==
  [v \in {"short", "extended"} |-> [src \in Sources |-> process_raw_df(read_excel(v, src))]]
load_xlsx(v, src) == NormalizedSheets[v][src]

\* pd.read_parquet: the snapshot file holds a table persisted after normalization
\* and is returned as it is.
read_parquet(v, src) == NormalizedSheets[v][src]

Promises == {"_fetch_from_avilist", "_load_xlsx", "read_parquet"}

\* self._df_promise()
CallPromise(promise, v, src) ==
  IF promise = "read_parquet" THEN read_parquet(v, src) ELSE load_xlsx(v, src)

default_version(v) ==
  IF v = "short" THEN "AviList-v2025-11Jun-short" ELSE "AviList-v2025-11Jun-extended"

\* from_parquet: the label is the stem of the snapshot's file name, which starts
\* with "AviList-" and ends with the variant's suffix.
SnapshotStems(v) ==
  IF v = "short" THEN {"AviList-v2025-11Jun-short", "AviList-v2024-short"}
  ELSE {"AviList-v2025-11Jun-extended", "AviList-v2024-extended"}

(***************************************************************************)
(* The query engine.                                                       *)
(***************************************************************************)
QueryKeys ==
  {"genus", "epithet", "subspecies", "common_name", "order", "family",
   "family_english_name", "species_range"}
NoQuery == [k \in QueryKeys |-> None]

IsText(v) == v.kind = "str"
\* Series.str.lower() == text, .str.startswith(text), .str.contains(text): a
\* missing cell never passes the mask.
EqualsLower(v, text) == IsText(v) /\ lower(v.val) = text
StartsLower(v, text) == IsText(v) /\ startswith(lower(v.val), text)
ContainsLower(v, text) == IsText(v) /\ contains(lower(v.val), text)

\* df[mask]: the rows whose entry in the boolean mask is true, in table order
RECURSIVE KeepFrom(_, _, _)
KeepFrom(rows, mask, r) ==
  IF r > Len(rows) THEN <<>>
  ELSE (IF mask[r] THEN <<rows[r]>> ELSE <<>>) \o KeepFrom(rows, mask, r + 1)
Keep(t, mask) == [t EXCEPT !.rows = KeepFrom(t.rows, mask, 1)]
Rows(t) == 1..Len(t.rows)

FilterGenus(t, kwargs) ==
  IF Truthy(kwargs["genus"])
  THEN Keep(t, [r \in Rows(t) |->
                  StartsLower(Cell(t, r, scientific_name), lower(kwargs["genus"].val))])
  ELSE t
FilterEpithet(t, kwargs) ==
  IF Truthy(kwargs["epithet"])
  THEN Keep(t, [r \in Rows(t) |->
                  ContainsLower(Cell(t, r, scientific_name), lower(kwargs["epithet"].val))])
  ELSE t
FilterSubspecies(t, kwargs) ==
  IF Truthy(kwargs["subspecies"])
  THEN Keep(t, [r \in Rows(t) |->
                  /\ ContainsLower(Cell(t, r, scientific_name), lower(kwargs["subspecies"].val))
                  /\ EqualsLower(Cell(t, r, taxon_rank), <<"s", "u", "b", "s", "p", "e", "c", "i", "e", "s">>)])
  ELSE t
FilterCommonName(v, t, kwargs) ==
  IF Truthy(kwargs["common_name"])
  THEN LET cn_lower == lower(kwargs["common_name"].val)
       IN IF v = "short"
          THEN Keep(t, [r \in Rows(t) |->
                          EqualsLower(Cell(t, r, english_name_avilist), cn_lower)])
          ELSE Keep(t, [r \in Rows(t) |->
                          \/ EqualsLower(Cell(t, r, english_name_avilist), cn_lower)
                          \/ EqualsLower(Cell(t, r, english_name_clements_v2024), cn_lower)
                          \/ EqualsLower(Cell(t, r, english_name_birdlife_v9), cn_lower)])
  ELSE t
FilterDirect(t, kwargs, query_key, col_name) ==
  IF kwargs[query_key] # None
  THEN Keep(t, [r \in Rows(t) |->
                  EqualsLower(Cell(t, r, col_name), lower(kwargs[query_key].val))])
  ELSE t
FilterRange(t, kwargs) ==
  IF Truthy(kwargs["species_range"])
  THEN Keep(t, [r \in Rows(t) |->
                  LET v == Cell(t, r, species_range)
                  IN contains(lower(IF IsText(v) THEN v.val ELSE <<>>),
                              lower(kwargs["species_range"].val))])
  ELSE t

\* _build_query_set of the variant v on table t (self._df, known to be loaded)
build_query_set(v, t, kwargs) ==
  LET d1 == FilterGenus(t, kwargs)
      d2 == FilterEpithet(d1, kwargs)
      d3 == FilterSubspecies(d2, kwargs)
      d4 == FilterCommonName(v, d3, kwargs)
      d5 == FilterDirect(d4, kwargs, "order", order)
      d6 == FilterDirect(d5, kwargs, "family", family)
      d7 == FilterDirect(d6, kwargs, "family_english_name", family_english_name)
  IN FilterRange(d7, kwargs)

\* df.to_dict('records')
RowDict(t, r) == [c \in Range(t.columns) |-> Cell(t, r, c)]
to_dict(t) == [r \in 1..Len(t.rows) |-> RowDict(t, r)]

\* records[:limit] when limit is truthy, records otherwise
ApplyLimit(records, limit) ==
  IF Truthy(limit)
  THEN IF limit.val >= 0
       THEN SubSeq(records, 1, IF limit.val < Len(records) THEN limit.val ELSE Len(records))
       ELSE SubSeq(records, 1, Len(records) + limit.val)
  ELSE records

SchemaOf(v, lean) == IF lean THEN "lean" ELSE v

(***************************************************************************)
(* Spec: one checklist object, its lifecycle, and find with a consumer of  *)
(* the generator it returns.                                               *)
(***************************************************************************)
Limits == {None} \cup {PyInt(n) : n \in 0..MaxLimit}
TaxonQueries ==
  {[NoQuery EXCEPT !["genus"] = g, !["epithet"] = e, !["subspecies"] = s] :
     g \in {None, PyStr(<<"c", "o", "r", "v", "u", "s">>), PyStr(<<"M", "e", "r", "o", "p", "s">>)},
     e \in {None, PyStr(<<"c", "o", "r", "o", "n", "e">>), PyStr(<<"o", "r", "i", "e", "n", "t", "a", "l", "i", "s">>)},
     s \in {None, PyStr(<<"o", "r", "i", "e", "n", "t", "a", "l", "i", "s">>)}}
OtherQueries ==
  {[NoQuery EXCEPT !["common_name"] = c, !["order"] = o, !["species_range"] = r] :
     c \in {None, PyStr(<<"g", "r", "e", "e", "n", " ", "b", "e", "e", "-", "e", "a", "t", "e", "r">>)},
     o \in {None, PyStr(<<"p", "a", "s", "s", "e", "r", "i", "f", "o", "r", "m", "e", "s">>)},
     r \in {None, PyStr(<<"a", "s", "i", "a">>)}}
  \cup {[NoQuery EXCEPT !["family"] = f, !["family_english_name"] = n] :
          f \in {None, PyStr(<<"C", "O", "R", "V", "I", "D", "A", "E">>)},
          n \in {None, PyStr(<<"B", "e", "e", "-", "E", "a", "t", "e", "r", "s">>)}}
  \cup {[NoQuery EXCEPT !["genus"] = PyStr(<<"c", "o", "r", "v", "u", "s">>), !["species_range"] = PyStr(<<"a", "s", "i", "a">>)],
        [NoQuery EXCEPT !["genus"] = PyStr(<<>>), !["order"] = PyStr(<<>>)]}
LimitedQueries ==
  {NoQuery, [NoQuery EXCEPT !["genus"] = PyStr(<<"c", "o", "r", "v", "u", "s">>)],
   [NoQuery EXCEPT !["epithet"] = PyStr(<<"o", "r", "i", "e", "n", "t", "a", "l", "i", "s">>)]}
\* The calls of find the model makes: (lean, limit, criteria).
FindCalls ==
  {<<FALSE, None, q>> : q \in TaxonQueries}
    \cup {<<lean, None, q>> : lean \in BOOLEAN, q \in OtherQueries}
    \cup {<<FALSE, limit, q>> : limit \in Limits, q \in LimitedQueries}

NoGen ==
  [state |-> "none", lean |-> FALSE, limit |-> None, kwargs |-> NoQuery,
   records |-> <<>>, pos |-> 0, exc |-> "", warned |-> FALSE, df_at_call |-> None]

ChecklistInit ==
  /\ df_promise \in Promises
  /\ version \in (IF df_promise = "read_parquet" THEN SnapshotStems(variant)
                  ELSE {default_version(variant)})
  /\ df = None
  /\ source \in Sources
  /\ gen = NoGen
  /\ out = <<>>
  /\ arg = None
  /\ res = None

Init == variant \in {"short", "extended"} /\ ChecklistInit

\* AviList.load
Load ==
  /\ df' = CallPromise(df_promise, variant, source)
  /\ UNCHANGED <<variant, version, df_promise, source, gen, out, arg, res>>

\* AviList.unload
Unload ==
  /\ df' = None
  /\ UNCHANGED <<variant, version, df_promise, source, gen, out, arg, res>>

\* The environment replaces the content behind the producer.
SourceChanges ==
  /\ source' \in Sources \ {source}
  /\ UNCHANGED <<variant, version, df_promise, df, gen, out, arg, res>>

\* ensure_loaded as it would be if the wrapper called the function without loading
ensure_loaded_without_load(table) == table

\* ensure_loaded's wrapper: the table the wrapped function will find
ensure_loaded(table) ==
  IF table = None THEN CallPromise(df_promise, variant, source) ELSE table

\* A call of find.  find is a generator function: the call runs ensure_loaded's
\* wrapper and returns a generator whose body has not started.  warned records
\* that the wrapper loaded the table, df_at_call the table held when the call
\* returned.  The consumer holds one generator at a time.
Find(lean, limit, kwargs) ==
  /\ gen.state = "none"
  /\ df' = ensure_loaded(df)
  /\ gen' = [state |-> "created", lean |-> lean, limit |-> limit, kwargs |-> kwargs,
             records |-> <<>>, pos |-> 0, exc |-> "", warned |-> (df = None),
             df_at_call |-> df']
  /\ out' = <<>>
  /\ UNCHANGED <<variant, version, df_promise, source, arg, res>>

\* The generator runs from records[pos + 1] to its next yield, its end or its raise.
Advance(g, records) ==
  IF g.pos >= Len(records)
  THEN /\ gen' = [g EXCEPT !.state = "done", !.records = records]
       /\ out' = out
  ELSE LET r == model_validate(SchemaOf(variant, g.lean), records[g.pos + 1])
       IN IF r.kind = "raise"
          THEN /\ gen' = [g EXCEPT !.state = "raised", !.exc = r.exc, !.records = records]
               /\ out' = out
          ELSE /\ gen' = [g EXCEPT !.state = "suspended", !.records = records,
                                   !.pos = g.pos + 1]
               /\ out' = Append(out, r)

\* next(gen) on a generator that has not started: the body of find runs from
\* its first line, and _build_query_set reads self._df as it is now.
Start ==
  /\ gen.state = "created"
  /\ IF df = None
     THEN /\ gen' = [gen EXCEPT !.state = "raised", !.exc = "RuntimeError"]
          /\ out' = out
     ELSE Advance(gen, ApplyLimit(to_dict(build_query_set(variant, df, gen.kwargs)),
                                  gen.limit))
  /\ UNCHANGED <<variant, version, df_promise, df, source, arg, res>>

\* next(gen) on a generator suspended at its yield
Resume ==
  /\ gen.state = "suspended"
  /\ Advance(gen, gen.records)
  /\ UNCHANGED <<variant, version, df_promise, df, source, arg, res>>

\* The consumer lets go of the generator (and of what it collected from it).
Drop ==
  /\ gen.state # "none"
  /\ gen' = NoGen
  /\ out' = <<>>
  /\ UNCHANGED <<variant, version, df_promise, df, source, arg, res>>

Next ==
  \/ Load
  \/ Unload
  \/ SourceChanges
  \/ \E call \in FindCalls : Find(call[1], call[2], call[3])
  \/ Start
  \/ Resume
  \/ Drop

Spec == Init /\ [][Next]_vars

(***************************************************************************)
(* SpecEnrich: an extended checklist object, its lifecycle, and            *)
(* enrich_species_list.  A threshold is a whole number of hundredths.      *)
(***************************************************************************)
Pair(name, threshold) == [scientific_name |-> name, threshold |-> threshold]
PairPool ==
  { Pair(<<"C", "o", "r", "v", "u", "s", " ", "c", "o", "r", "o", "n", "e">>, 90), Pair(<<"C", "o", "r", "v", "u", "s", " ", "c", "o", "r", "o", "n", "e">>, 50),
    Pair(<<"N", "o", "n", "e", "x", "i", "s", "t", "e", "n", "t", " ", "s", "p", "e", "c", "i", "e", "s">>, 99), Pair(<<"M", "e", "r", "o", "p", "s", " ", "o", "r", "i", "e", "n", "t", "a", "l", "i", "s">>, 90),
    Pair(<<"c", "o", "r", "v", "u", "s", " ", "c", "o", "r", "o", "n", "e">>, 70) }
\* The lists passed to enrich_species_list: every list of at most MaxPairs
\* different pairs of the pool, and one list that repeats a pair.
EnrichInputs ==
  UNION {{s \in [1..k -> PairPool] : \A i, j \in 1..k : s[i] = s[j] => i = j} :
           k \in 0..MaxPairs}
    \cup {<<Pair(<<"C", "o", "r", "v", "u", "s", " ", "c", "o", "r", "o", "n", "e">>, 90), Pair(<<"C", "o", "r", "v", "u", "s", " ", "c", "o", "r", "o", "n", "e">>, 90)>>}

\* pd.merge(input_df, self._df, on='scientific_name', how='inner'): the pairs
\* <<i, r>> of an input record and a table row with the same scientific_name,
\* in the order of the input records, then of the table rows.
RECURSIVE MergeFrom(_, _, _, _)
MergeFrom(records, t, i, r) ==
  IF i > Len(records) THEN <<>>
  ELSE IF r > Len(t.rows) THEN MergeFrom(records, t, i + 1, 1)
  ELSE (IF Cell(t, r, scientific_name) = PyStr(records[i].scientific_name)
        THEN << <<i, r>> >> ELSE <<>>) \o MergeFrom(records, t, i, r + 1)
\* merge_inner as it would be if the join key were compared without regard to case
merge_inner_ignoring_case(records, t) ==
  LET folded == [i \in 1..Len(records) |->
                   [records[i] EXCEPT !.scientific_name = lower(records[i].scientific_name)]]
      tf == [t EXCEPT !.rows = [r \in 1..Len(t.rows) |->
               [t.rows[r] EXCEPT ![ColumnIndex(t, scientific_name)] =
                  PyStr(lower(Cell(t, r, scientific_name).val))]]]
  IN MergeFrom(folded, tf, 1, 1)
merge_inner(records, t) == MergeFrom(records, t, 1, 1)

\* merged_df.sort_values(by='probability', ascending=False): the sort is not
\* stable, so every order that is descending in the threshold is possible.
RECURSIVE DescendingOrders(_, _)
DescendingOrders(records, merged) ==
  IF merged = <<>> THEN {<<>>}
  ELSE LET top == {k \in 1..Len(merged) :
                     \A l \in 1..Len(merged) :
                       records[merged[k][1]].threshold >= records[merged[l][1]].threshold}
       IN UNION {{<<merged[k]>> \o rest :
                    rest \in DescendingOrders(records,
                               SelectSeq(merged, LAMBDA m : m # merged[k]))} : k \in top}

\* [AviListExtendedRecord.model_validate(r) for r in merged_df.to_dict('records')]
ValidateAll(t, ordered) ==
  LET items == [k \in 1..Len(ordered) |->
                  model_validate("extended", RowDict(t, ordered[k][2]))]
  IN IF \E k \in 1..Len(items) : items[k].kind = "raise"
     THEN Raise("ValidationError")
     ELSE [kind |-> "list", items |-> items, from |-> ordered]

\* enrich_species_list behind ensure_loaded's wrapper.  arg records the call:
\* its argument, whether the table was loaded when it was made, and the table
\* its body read; res is what it returned (with, per record, the input pair
\* and the table row it comes from) or raised.
Enrich(records) ==
  /\ arg = None
  /\ LET table == ensure_loaded(df)
     IN /\ df' = table
        /\ arg' = [records |-> records, loaded |-> (df # None), table |-> table]
        /\ IF table = None
           THEN res' = Raise("RuntimeError")
           ELSE IF records = <<>>
           THEN res' = [kind |-> "list", items |-> <<>>, from |-> <<>>]
           ELSE \E ordered \in DescendingOrders(records, merge_inner(records, table)) :
                  res' = ValidateAll(table, ordered)
  /\ UNCHANGED <<variant, version, df_promise, source, gen, out>>

\* The caller lets go of the returned list.
Forget ==
  /\ arg # None
  /\ arg' = None
  /\ res' = None
  /\ UNCHANGED <<variant, version, df_promise, df, source, gen, out>>

InitEnrich == variant = "extended" /\ ChecklistInit

\* enrich_species_list runs to its return in one step, so what the checklist
\* does next is followed from the states where the caller has let the list go.
NextEnrich ==
  \/ arg = None /\ Load
  \/ arg = None /\ Unload
  \/ arg = None /\ SourceChanges
  \/ \E records \in EnrichInputs : Enrich(records)
  \/ Forget

SpecEnrich == InitEnrich /\ [][NextEnrich]_vars

(***************************************************************************)
(* The claims.                                                             *)
(***************************************************************************)
DerivedProperty(key, r) ==
  CASE key = "genus" -> genus(r)
    [] key = "epithet" -> epithet(r)
    [] key = "subspecies" -> subspecies(r)

\* C1 (Spec): every record find has yielded has, for each of the filters genus,
\* epithet and subspecies that the call supplied, the derived property of that
\* name present and equal to the filter value, case-insensitively.
C1_FindYieldsMatchingProperties ==
  \A i \in 1..Len(out) : \A key \in {"genus", "epithet", "subspecies"} :
    Truthy(gen.kwargs[key]) =>
      LET actual == DerivedProperty(key, out[i])
      IN actual.kind = "str" /\ lower(actual.val) = lower(gen.kwargs[key].val)

\* C2 (SpecEnrich): enrich_species_list called while the table is not loaded
\* raises the precondition error and does not load: its body found no table.
C2_EnrichFailsWhenNotLoaded ==
  (arg # None /\ ~arg.loaded) => (res = Raise("RuntimeError") /\ arg.table = None)

\* C3 (Spec): the rows a find generator yields are selected from the table held
\* when find returned, whatever load or unload came between the call and the
\* consumption, and consuming the generator does not fail for want of a table.
C3_FindSelectsAtCallTime ==
  /\ gen.state = "raised" => gen.exc # "RuntimeError"
  /\ gen.state \in {"suspended", "done"} =>
       gen.records = ApplyLimit(to_dict(build_query_set(variant, gen.df_at_call, gen.kwargs)),
                                gen.limit)

\* C4 (Spec): with an integer limit n >= 0 the generator yields no more than n
\* records, and the rows it selected are the first min(n, k) of the k rows of
\* the table it read that pass the filters, in table order.
C4_LimitCapsResults ==
  (gen.limit.kind = "int" /\ gen.limit.val >= 0) =>
    /\ Len(out) <= gen.limit.val
    /\ gen.state \in {"suspended", "done"} =>
         \E src \in Sources :
           LET passing == to_dict(build_query_set(variant, NormalizedSheets[variant][src],
                                                  gen.kwargs))
               n == IF gen.limit.val < Len(passing) THEN gen.limit.val ELSE Len(passing)
           IN gen.records = SubSeq(passing, 1, n)

\* The text after the last comma of a citation, as parse_authority reads it.
YearText(s) ==
  LET t == strip(s, {"(", ")"})
  IN strip(SubSeq(t, LastIndex(t, ",") + 1, Len(t)), WS)
HasYearText(v) == v.kind = "str" /\ "," \in Range(v.val)

C6_HelperAbsentBelowTwoTokens ==
  (res # None /\ res.kind = "table") =>
    \A r \in 1..Len(res.rows) :
      LET n == Cell(res, r, scientific_name)
          tokens == IF n.kind = "str" THEN split_ws(n.val) ELSE <<>>
      IN Cell(res, r, binomial_helper) =
           IF Len(tokens) >= 2 THEN PyStr(lower(tokens[1] \o <<" ">> \o tokens[2])) ELSE NA

\* C6 as amended (SpecNormalize): after normalization binomial_helper is the
\* lowercased first two tokens joined by a space when the name has at least two
\* tokens, the lowercased token when it has one, the empty text when it has
\* none, and absent exactly when scientific_name is absent.
C6_HelperIsFirstTokensLowercased ==
  (res # None /\ res.kind = "table") =>
    \A r \in 1..Len(res.rows) :
      LET n == Cell(res, r, scientific_name)
          tokens == IF n.kind = "str" THEN split_ws(n.val) ELSE <<>>
      IN Cell(res, r, binomial_helper) =
           IF n.kind # "str" THEN NA
           ELSE IF Len(tokens) >= 2 THEN PyStr(lower(tokens[1] \o <<" ">> \o tokens[2]))
           ELSE IF Len(tokens) = 1 THEN PyStr(lower(tokens[1]))
           ELSE PyStr(<<>>)

\* C6, witness: a normalized row whose name is the single token "Corvidae"
\* carries the helper "corvidae".
C6_SingleTokenHelper ==
  /\ res # None /\ res.kind = "table"
  /\ \E r \in 1..Len(res.rows) :
       /\ Cell(res, r, scientific_name) = PyStr(<<"C", "o", "r", "v", "i", "d", "a", "e">>)
       /\ Cell(res, r, binomial_helper) = PyStr(<<"c", "o", "r", "v", "i", "d", "a", "e">>)

\* C7 (SpecRecord): the subspecies property of a validated record is the last
\* token of scientific_name when the name has three or more tokens and is
\* absent when it has one or two.
C7_SubspeciesAbsentBelowThreeTokens ==
  (res # None /\ res.ret.kind = "record") =>
    LET tokens == split_ws(res.ret.fields[scientific_name].val)
    IN subspecies(res.ret) =
         IF Len(tokens) >= 3 THEN PyStr(tokens[Len(tokens)]) ELSE None

\* C8 (SpecEnrich): the list enrich_species_list returns holds one Extended
\* record per pair of an input record and a table row with exactly the same
\* scientific_name, none for an input record without such a row, one for each
\* repetition of a name, in an order of descending threshold.
C8_EnrichIsInnerJoinByDescendingScore ==
  (arg # None /\ res.kind = "list") =>
    LET recs == arg.records
        t == arg.table
        combos == {c \in (1..Len(recs)) \X (1..Len(t.rows)) :
                     PyStr(recs[c[1]].scientific_name) = Cell(t, c[2], scientific_name)}
    IN /\ Len(res.items) = Cardinality(combos)
       /\ {res.from[k] : k \in 1..Len(res.from)} = combos
       /\ \A k \in 1..Len(res.items) :
            /\ res.items[k].schema = "extended"
            /\ res.items[k].fields[scientific_name]
                 = PyStr(recs[res.from[k][1]].scientific_name)
            /\ res.items[k].fields[sequence] = Cell(t, res.from[k][2], sequence)
       /\ \A k, l \in 1..Len(res.items) :
            k < l => recs[res.from[k][1]].threshold >= recs[res.from[l][1]].threshold

\* C8, witness: the documented call, two records for "Corvus corone" with
\* thresholds 0.9 and 0.5 and one for a name the table lacks, has returned at
\* least two records, the first from the 0.9 pair.
C8_DocumentedJoin ==
  /\ arg # None /\ res.kind = "list"
  /\ arg.records = <<Pair(<<"C", "o", "r", "v", "u", "s", " ", "c", "o", "r", "o", "n", "e">>, 50), Pair(<<"N", "o", "n", "e", "x", "i", "s", "t", "e", "n", "t", " ", "s", "p", "e", "c", "i", "e", "s">>, 99),
                     Pair(<<"C", "o", "r", "v", "u", "s", " ", "c", "o", "r", "o", "n", "e">>, 90)>>
  /\ Len(res.items) >= 2
  /\ res.from[1][1] = 3

\* C9 (Spec): a checklist starts with no table and a bound producer; load sets
\* the table to the producer's result; unload sets it to none and leaves the
\* producer and the version label as they are; a find on an unloaded checklist
\* leaves it holding the producer's result; and no step gives the checklist a
\* table other than the producer's result or changes producer or label.
C9_Lifecycle ==
  /\ df = None /\ df_promise \in Promises
  /\ [][ /\ Load => df' = CallPromise(df_promise, variant, source)
         /\ Unload => (df' = None /\ df_promise' = df_promise /\ version' = version)
         /\ (df = None /\ \E call \in FindCalls : Find(call[1], call[2], call[3]))
              => df' = CallPromise(df_promise, variant, source)
         /\ (df' # df /\ df' # None) => df' = CallPromise(df_promise, variant, source)
         /\ df_promise' = df_promise /\ version' = version ]_vars

\* C9, witness: find was called on an unloaded checklist and the checklist now
\* holds the producer's result.
C9_FindLoadedTheTable ==
  /\ gen.state = "created" /\ gen.warned
  /\ df # None /\ df = CallPromise(df_promise, variant, source)

\* C10 (SpecNormalize): normalizing a table that is already normalized returns
\* it unchanged, column names and every value of every row.
C10_RenormalizeIsNoOp ==
  [][(res # None /\ res.kind = "table") => res' = res]_vars

====
